---- MODULE Spec2Model ----
(***************************************************************************)
(* A model of the MIDI preprocessor of music_gen: the file selector        *)
(* (Preprocessor.collect / filter), the encoder                            *)
(* (Preprocessor.convert_path_to_dict, chord_to_base_n, make_temp) and the *)
(* batch driver (df.py: extract).                                          *)
(*                                                                         *)
(* The music21 and pypianoroll libraries are outside the repository; what  *)
(* they return is part of a file's description (analysed key, number of    *)
(* time signatures, chordified content, number of tracks) or an operator   *)
(* that follows the library's documented behaviour (closedPosition).       *)
(***************************************************************************)
EXTENDS Integers, Sequences, FiniteSets, TLC

(***************************************************************************)
(* Bounds of the model.                                                    *)
(***************************************************************************)
MaxFiles == 2          \* files under the root directory
MaxChords == 3         \* chord events of one file
MaxLookback == 2       \* configured lookback, 1..MaxLookback
MaxNotes == 3          \* notes of a chord handed to chord_to_base_n

(***************************************************************************)
(* Program constants.                                                      *)
(***************************************************************************)
MiddleC == 60          \* relative_to_c4 = note.pitch.midi - 60
ForceOctave == 4       \* chord.closedPosition(forceOctave=4, ...)

VARIABLES
    output_type,      \* self.output_type
    lookback,         \* self.lookback
    binarize,         \* self.binarize
    argsTranspose,    \* args.transpose of the driver (--no-transpose clears it)
    caller,           \* "extract" (df.py) or "api" (a client calling the encoder)
    transposeArg,     \* the transpose argument an "api" client passes
    dirExists,        \* self.folder_path.is_dir()
    dir,              \* the *.mid files under folder_path, in glob order
    surname,          \* the surname argument of the latest collect call
    candidates,       \* the list the latest collect handed to filter
    filepath_array,   \* self.filepath_array: indices into dir
    pc,               \* position of the caller
    err,              \* the exception that ended the latest call, or "none"
    idx,              \* 1-based position of the batch loop in filepath_array
    conv,             \* locals of the running convert_path_to_dict call
    ret,              \* what the latest convert_path_to_dict call returned
    rows,             \* rows of extract
    results,          \* what an "api" client has received so far
    tempdirs,         \* temporary directories that exist
    created,          \* number of temporary directories created so far
    printed,          \* diagnostics printed by the encoder
    chordIn,          \* argument of a direct chord_to_base_n call
    intOut            \* its result

vars == <<output_type, lookback, binarize, argsTranspose, caller, transposeArg,
          dirExists, dir, surname, candidates, filepath_array, pc, err, idx,
          conv, ret, rows, results, tempdirs, created, printed, chordIn, intOut>>

cfgVars == <<output_type, lookback, binarize, argsTranspose, caller, transposeArg,
             dirExists, dir>>

(***************************************************************************)
(* Generic helpers.                                                        *)
(***************************************************************************)
Range(s) == {s[i] : i \in DOMAIN s}

SeqsUpTo(S, n) == UNION {[1..k -> S] : k \in 0..n}

MinOf(S) == CHOOSE x \in S : \A y \in S : x <= y

RECURSIVE SortedSeq(_)
SortedSeq(S) == IF S = {} THEN <<>>
                ELSE LET m == MinOf(S) IN <<m>> \o SortedSeq(S \ {m})

RECURSIVE Pow2(_)
Pow2(n) == IF n <= 0 THEN 1 ELSE 2 * Pow2(n - 1)

IsPrefix(p, s) == Len(p) <= Len(s) /\ SubSeq(s, 1, Len(p)) = p

(***************************************************************************)
(* Files.  A file is described by what the libraries report about it.      *)
(*   stem    the file name without ".mid", a sequence of letters           *)
(*   parses  m21.converter.parse succeeds                                  *)
(*   mode    mode of music_data.analyze("key")                             *)
(*   tonic   pitch class of the analysed tonic (0 = C)                     *)
(*   nts     time signatures written in the file                           *)
(*   nchords chord events of the chordified score                          *)
(*   tracks  instrument tracks pypianoroll reads                           *)
(*   io      outcome of writing / reading the intermediate MIDI file       *)
(***************************************************************************)
NoSurname == [given |-> FALSE, text |-> <<>>]
Given(t) == [given |-> TRUE, text |-> t]

File(st, p, m, t, n, c, tr, o) ==
    [stem |-> st, parses |-> p, mode |-> m, tonic |-> t, nts |-> n,
     nchords |-> c, tracks |-> tr, io |-> o]

\* Path.match(f"{surname}*.mid") on a *.mid path: the name starts with surname
match(f, text) == IsPrefix(text, f.stem)

\* len(music_data.getTimeSignatures()): music21 returns the default 4/4
\* signature when the stream holds none (returnDefault=True)
getTimeSignatures(f) == IF f.nts = 0 THEN 1 ELSE f.nts

(***************************************************************************)
(* The selector: Preprocessor.collect and Preprocessor.filter.             *)
(***************************************************************************)
\* self.folder_path.glob("**/*.mid"): every file of the tree, as paths
glob(d) == [i \in 1..Len(d) |-> i]

RECURSIVE matching(_, _, _)
\* [filepath for filepath in files if filepath.match(f"{surname}*.mid")]
matching(d, paths, text) ==
    IF paths = <<>> THEN <<>>
    ELSE (IF match(d[Head(paths)], text) THEN <<Head(paths)>> ELSE <<>>)
         \o matching(d, Tail(paths), text)

\* filter without its time-signature test
Admitted_any_signature(f) == ~(f.mode # "major")

\* the two admission tests of filter; a file passes when neither "continue" is taken
Admitted(f) == ~(f.mode # "major") /\ ~(getTimeSignatures(f) > 1)

RECURSIVE filter(_, _)
\* the loop of filter over parseable files, appending the admitted paths in order
filter(d, paths) ==
    IF paths = <<>> THEN <<>>
    ELSE (IF Admitted(d[Head(paths)]) THEN <<Head(paths)>> ELSE <<>>)
         \o filter(d, Tail(paths))

\* m21.converter.parse raises inside filter on the first file it cannot parse
ParseRaises(d, paths) == \E i \in DOMAIN paths : ~d[paths[i]].parses

\* collect raising "no matching files" on the selection left after filter
collect_check_after_filter(s) ==
    IF ~dirExists
    THEN [err |-> "DirNotFound", cand |-> <<>>, sel |-> filepath_array]
    ELSE LET files == glob(dir)
             cand  == IF ~s.given THEN files ELSE matching(dir, files, s.text)
         IN  IF ParseRaises(dir, cand)
             THEN [err |-> "ParseError", cand |-> cand, sel |-> filepath_array]
             ELSE IF s.given /\ Len(filter(dir, cand)) <= 0
             THEN [err |-> "NoMatch", cand |-> cand, sel |-> filepath_array]
             ELSE [err |-> "none", cand |-> cand, sel |-> filter(dir, cand)]

\* one call of collect(surname): the exception it raises ("none" when it
\* returns), the candidate list it built and the selection it stores
collect(s) ==
    IF ~dirExists
    THEN [err |-> "DirNotFound", cand |-> <<>>, sel |-> filepath_array]
    ELSE LET files == glob(dir)
             cand  == IF ~s.given THEN files ELSE matching(dir, files, s.text)
         IN  IF s.given /\ Len(cand) <= 0
             THEN [err |-> "NoMatch", cand |-> cand, sel |-> filepath_array]
             ELSE IF ParseRaises(dir, cand)
             THEN [err |-> "ParseError", cand |-> cand, sel |-> filepath_array]
             ELSE [err |-> "none", cand |-> cand, sel |-> filter(dir, cand)]

(***************************************************************************)
(* Scores.  A chord is its notes' MIDI numbers, lowest first, and its      *)
(* duration (quarterLength, in sixteenths).  The chordified content of a   *)
(* file is the first nchords chords of a fixed progression whose chords    *)
(* differ in pitches, voicing and duration.                                *)
(***************************************************************************)
Chord(ps, d) == [pitches |-> ps, dur |-> d]

ChordAt(k) ==
    CASE k % 4 = 1 -> Chord(<<48, 64, 67>>, 4 + k)
      [] k % 4 = 2 -> Chord(<<55, 59, 74>>, 2 + k)
      [] k % 4 = 3 -> Chord(<<60, 65, 69>>, 1 + k)
      [] OTHER     -> Chord(<<53, 69, 72>>, 8 + k)

\* the chords of music_data.chordify() for the file as it is on disk
chordify(f) == [k \in 1..f.nchords |-> ChordAt(k)]

\* music_data.transpose(i, inPlace=True): every pitch moves by the interval
transpose(chords, semitones) ==
    [k \in DOMAIN chords |->
        Chord([j \in DOMAIN chords[k].pitches |-> chords[k].pitches[j] + semitones],
              chords[k].dur)]

\* m21.interval.Interval(key.tonic, m21.pitch.Pitch("C")).semitones: tonic and C
\* both lie in the default octave, so the interval descends by the tonic's pitch class
IntervalToC(f) == 0 - f.tonic

\* key != m21.key.Key("C"): a key equals C major when tonic and mode agree
NotCMajor(f) == ~(f.tonic = 0 /\ f.mode = "major")

Octave(m) == (m \div 12) - 1

\* chord.closedPosition(forceOctave=4, inPlace=True) as music21 does it: all
\* pitches move by octaves until the bass is in the forced octave, every pitch
\* is then lowered by octaves to less than an octave above the bass, redundant
\* pitches are removed and the pitches sorted; the duration is not touched
closedPosition(c) ==
    LET b   == MinOf(Range(c.pitches))
        sh  == 12 * (ForceOctave - Octave(b))
        bb  == b + sh
        set == {bb + ((c.pitches[j] + sh - bb) % 12) : j \in DOMAIN c.pitches}
    IN  Chord(SortedSeq(set), c.dur)

(***************************************************************************)
(* Labels.  A string label is kept as the library call that made it and    *)
(* the pitches the call saw; an integer label is a number num * 2^exp with *)
(* exp <= 0 (Python's 2 ** k is a float fraction for k < 0).               *)
(***************************************************************************)
Label(kind, of, num, exp) == [kind |-> kind, of |-> of, num |-> num, exp |-> exp]

START == Label("START", <<>>, 0, 0)
Zero == Label("int", <<>>, 0, 0)

pitchedCommonName(c) == Label("name", c.pitches, 0, 0)
romanNumeralFromChord(c) == Label("roman", c.pitches, 0, 0)

RECURSIVE Normal(_)
Normal(v) == IF v.exp < 0 /\ v.num % 2 = 0
             THEN Normal([num |-> v.num \div 2, exp |-> v.exp + 1]) ELSE v

\* 2 ** relative_to_c4
Power(r) == IF r >= 0 THEN [num |-> Pow2(r), exp |-> 0] ELSE [num |-> 1, exp |-> r]

Plus(a, b) ==
    LET e == IF a.exp < b.exp THEN a.exp ELSE b.exp
    IN  Normal([num |-> a.num * Pow2(a.exp - e) + b.num * Pow2(b.exp - e), exp |-> e])

RECURSIVE chord_to_base_n_from(_, _)
chord_to_base_n_from(notes, base_n_sum) ==
    IF notes = <<>> THEN base_n_sum
    ELSE chord_to_base_n_from(Tail(notes), Plus(base_n_sum, Power(Head(notes) - MiddleC)))

\* Preprocessor.chord_to_base_n: the sum over the notes of 2 ** (midi - 60)
chord_to_base_n(notes) == chord_to_base_n_from(notes, [num |-> 0, exp |-> 0])

IntLabel(v) == Label("int", <<>>, v.num, v.exp)

IsChordMode(t) == t \in {"chordify_string", "chordify_int", "chordify_roman"}
IsRollMode(t) == t \in {"pianoroll", "full_pianoroll"}

\* ["START"] * self.lookback, [0] * self.lookback
InitialWindow(t, L) == [j \in 1..L |-> IF t = "chordify_int" THEN Zero ELSE START]

\* the label one pass of the chord loop computes, in the order of its
\* statements: chordify_string and chordify_int normalise the chord first,
\* chordify_roman takes the Roman numeral and normalises afterwards
ChordLabel(t, chord) ==
    CASE t = "chordify_string" -> pitchedCommonName(closedPosition(chord))
      [] t = "chordify_int"    -> IntLabel(chord_to_base_n(closedPosition(chord).pitches))
      [] OTHER                 -> romanNumeralFromChord(chord)

\* data.append(moving_window): the entry is the window object itself
window_alias(w) == [alias |-> TRUE, val |-> <<>>]

\* moving_window.copy(): a new list with the window's present contents
window_copy(w) == [alias |-> FALSE, val |-> w]

\* moving_window.pop(0); moving_window.append(label)
Slide(w, label) == Append(Tail(w), label)

\* what an entry of data holds while the window is w
Deref(entry, w) == IF entry.alias THEN w ELSE entry.val

(***************************************************************************)
(* Piano rolls.  A roll is a sequence of time steps at the configured      *)
(* resolution, each the set of <<pitch, velocity>> pairs sounding.         *)
(***************************************************************************)
RollOf(chords) ==
    [k \in DOMAIN chords |-> {<<chords[k].pitches[j], 63 + k>> : j \in DOMAIN chords[k].pitches}]

\* Track.binarize(): every sounding pitch becomes 1
Binarize(roll) == [k \in DOMAIN roll |-> {<<pv[1], 1>> : pv \in roll[k]}]

\* np.vstack([np.zeros(128), roll[:-1]])
Shifted(roll) == <<{}>> \o (IF roll = <<>> THEN <<>> ELSE SubSeq(roll, 1, Len(roll) - 1))

\* the (inputs, roll, None) triple both roll branches build from the track
RollTriple(roll, bin) ==
    LET r == IF bin THEN Binarize(roll) ELSE roll
    IN  [kind |-> "tuple", data |-> Shifted(r), labels |-> r, duration |-> <<>>,
         durationIsNone |-> TRUE]

ReturnsNone == [kind |-> "None", data |-> <<>>, labels |-> <<>>, duration |-> <<>>,
                durationIsNone |-> FALSE]

\* make_temp without try/finally: an exception skips the removal
make_temp_exit_no_finally(dirs, d, raised) == IF raised THEN dirs ELSE dirs \ {d}

\* exit of the "with make_temp()" block, normal or by an exception: the
\* finally clause removes the directory
make_temp_exit(dirs, d, raised) == dirs \ {d}

Stems == {<<"a">>, <<"a", "b">>, <<"b">>}
Surnames == {NoSurname, Given(<<>>), Given(<<"a">>), Given(<<"a", "b">>), Given(<<"c">>)}

NoConv == [active |-> FALSE, path |-> 0, bound |-> FALSE, num_semitones |-> 0,
           chord_data |-> <<>>, k |-> 0, moving_window |-> <<>>, data |-> <<>>,
           labels |-> <<>>, duration |-> <<>>, temp_dir |-> 0, roll |-> <<>>]
NoRet == [kind |-> "nothing", data |-> <<>>, labels |-> <<>>, duration |-> <<>>,
          durationIsNone |-> FALSE]

\* files of the selector's specification: names, parse outcome, key mode and
\* time signatures vary
SelFiles == {File(st, p, m, 0, n, 0, 1, "ok") :
                st \in Stems, p \in BOOLEAN, m \in {"major", "minor"}, n \in 0..2}

InitCommon ==
    /\ surname = NoSurname
    /\ candidates = <<>>
    /\ filepath_array = <<>>
    /\ pc = "start"
    /\ err = "none"
    /\ idx = 0
    /\ conv = NoConv
    /\ ret = NoRet
    /\ rows = <<>>
    /\ results = <<>>
    /\ tempdirs = {}
    /\ created = 0
    /\ printed = <<>>
    /\ chordIn = <<>>
    /\ intOut = [called |-> FALSE, value |-> [num |-> 0, exp |-> 0]]

InitSel ==
    /\ output_type = "chordify_string"
    /\ lookback = 1
    /\ binarize = TRUE
    /\ argsTranspose = TRUE
    /\ caller = "api"
    /\ transposeArg = TRUE
    /\ dirExists \in BOOLEAN
    /\ dir \in SeqsUpTo(SelFiles, MaxFiles)
    /\ InitCommon

\* a client calls prep.collect(surname=s); the object stays usable after an
\* exception, so collect may be called again
Collect(s) ==
    /\ pc \in {"start", "collected", "raised"}
    /\ LET r == collect(s) IN
         /\ surname' = s
         /\ err' = r.err
         /\ candidates' = r.cand
         /\ filepath_array' = r.sel
         /\ pc' = IF r.err = "none" THEN "collected" ELSE "raised"
    /\ UNCHANGED <<cfgVars, idx, conv, ret, rows, results, tempdirs, created,
                   printed, chordIn, intOut>>

NextSel == \E s \in Surnames : Collect(s)

SpecSel == InitSel /\ [][NextSel]_vars

(***************************************************************************)
(* The batch run: extract of df.py, or a client that collects and calls    *)
(* convert_path_to_dict(path, transpose) for every selected path           *)
(* (Preprocessor.iter is that client with the default transpose=True).     *)
(***************************************************************************)
BatchSurnames == {Given(<<"a">>), Given(<<"c">>)}

\* extract calls convert_path_to_dict(path) and so always uses the default
\* transpose=True; args.transpose is never handed on
TransposeParam == IF caller = "extract" THEN TRUE ELSE transposeArg

CurrentFile == dir[filepath_array[idx]]

Raise(e) ==
    /\ err' = e
    /\ pc' = "raised"
    /\ conv' = NoConv

\* prep.collect(surname=artist), then the loop over filepath_array starts
StartBatch(s) ==
    /\ pc = "start"
    /\ LET r == collect(s) IN
         /\ surname' = s
         /\ err' = r.err
         /\ candidates' = r.cand
         /\ filepath_array' = r.sel
         /\ pc' = IF r.err = "none" THEN "loop" ELSE "raised"
    /\ idx' = 1
    /\ UNCHANGED <<cfgVars, conv, ret, rows, results, tempdirs, created,
                   printed, chordIn, intOut>>

\* convert_path_to_dict, lines 112-118: parse, analyse the key, transpose
ConvertBegin ==
    /\ pc = "loop"
    /\ idx <= Len(filepath_array)
    /\ LET f == CurrentFile
           t == TransposeParam /\ NotCMajor(f)
       IN  IF ~f.parses
           THEN Raise("ParseError")
           ELSE /\ conv' = [NoConv EXCEPT !.active = TRUE,
                                          !.path = filepath_array[idx],
                                          !.bound = t,
                                          !.num_semitones = IF t THEN IntervalToC(f) ELSE 0,
                                          !.chord_data =
                                              IF t THEN transpose(chordify(f), IntervalToC(f))
                                              ELSE chordify(f)]
                /\ pc' = "dispatch"
                /\ UNCHANGED err
    /\ UNCHANGED <<cfgVars, surname, candidates, filepath_array, idx, ret, rows,
                   results, tempdirs, created, printed, chordIn, intOut>>

\* the head of a chord branch: empty lists, the sentinel window, chordify
ChordInit ==
    /\ pc = "dispatch"
    /\ IsChordMode(output_type)
    /\ conv' = [conv EXCEPT !.moving_window = InitialWindow(output_type, lookback),
                            !.k = 1]
    /\ pc' = "chords"
    /\ UNCHANGED <<cfgVars, surname, candidates, filepath_array, err, idx, ret, rows,
                   results, tempdirs, created, printed, chordIn, intOut>>

\* one pass of the chord loop
ChordStep ==
    /\ pc = "chords"
    /\ conv.k <= Len(conv.chord_data)
    /\ LET chord == conv.chord_data[conv.k]
           label == ChordLabel(output_type, chord)
       IN  conv' = [conv EXCEPT
                      !.data = Append(conv.data, window_copy(conv.moving_window)),
                      !.labels = Append(conv.labels, label),
                      !.duration = Append(conv.duration, closedPosition(chord).dur),
                      !.moving_window = Slide(conv.moving_window, label),
                      !.k = conv.k + 1]
    /\ UNCHANGED <<cfgVars, surname, candidates, filepath_array, pc, err, idx, ret,
                   rows, results, tempdirs, created, printed, chordIn, intOut>>

\* return np.array(data), np.array(labels), np.array(duration)
ChordReturn ==
    /\ pc = "chords"
    /\ conv.k > Len(conv.chord_data)
    /\ ret' = [kind |-> "tuple",
               data |-> [i \in DOMAIN conv.data |-> Deref(conv.data[i], conv.moving_window)],
               labels |-> conv.labels,
               duration |-> conv.duration,
               durationIsNone |-> FALSE]
    /\ conv' = NoConv
    /\ pc' = "returned"
    /\ UNCHANGED <<cfgVars, surname, candidates, filepath_array, err, idx, rows,
                   results, tempdirs, created, printed, chordIn, intOut>>

\* pianoroll: entry of "with make_temp() as temp_dir" (tempfile.mkdtemp)
MakeTemp ==
    /\ pc = "dispatch"
    /\ output_type = "pianoroll"
    /\ created' = created + 1
    /\ tempdirs' = tempdirs \cup {created + 1}
    /\ conv' = [conv EXCEPT !.temp_dir = created + 1]
    /\ pc' = "write"
    /\ UNCHANGED <<cfgVars, surname, candidates, filepath_array, err, idx, ret, rows,
                   results, printed, chordIn, intOut>>

\* music_data.write("midi", fp=Path(temp_dir, "temp.mid"))
RollWrite ==
    /\ pc = "write"
    /\ IF dir[conv.path].io = "write_fails"
       THEN /\ tempdirs' = make_temp_exit(tempdirs, conv.temp_dir, TRUE)
            /\ Raise("WriteError")
       ELSE /\ pc' = "read"
            /\ UNCHANGED <<tempdirs, err, conv>>
    /\ UNCHANGED <<cfgVars, surname, candidates, filepath_array, idx, ret, rows,
                   results, created, printed, chordIn, intOut>>

\* pypianoroll.read(output_path).set_resolution(...), then the block ends
RollRead ==
    /\ pc = "read"
    /\ IF dir[conv.path].io = "read_fails"
       THEN /\ tempdirs' = make_temp_exit(tempdirs, conv.temp_dir, TRUE)
            /\ Raise("ReadError")
       ELSE /\ tempdirs' = make_temp_exit(tempdirs, conv.temp_dir, FALSE)
            /\ conv' = [conv EXCEPT !.roll = RollOf(conv.chord_data), !.temp_dir = 0]
            /\ pc' = "roll"
            /\ UNCHANGED err
    /\ UNCHANGED <<cfgVars, surname, candidates, filepath_array, idx, ret, rows,
                   results, created, printed, chordIn, intOut>>

\* pianoroll, lines 180-191: the track test and the shifted pair
RollFinish ==
    /\ pc = "roll"
    /\ IF dir[conv.path].tracks > 1
       THEN /\ printed' = Append(printed, conv.path)
            /\ ret' = ReturnsNone
       ELSE /\ ret' = RollTriple(conv.roll, binarize)
            /\ UNCHANGED printed
    /\ conv' = NoConv
    /\ pc' = "returned"
    /\ UNCHANGED <<cfgVars, surname, candidates, filepath_array, err, idx, rows,
                   results, tempdirs, created, chordIn, intOut>>

\* full_pianoroll, lines 193-206: the file itself is read, its tracks counted
\* and the roll transposed by num_semitones, a local that is assigned only in
\* the transposing branch of lines 115-118
FullPianoroll ==
    /\ pc = "dispatch"
    /\ output_type = "full_pianoroll"
    /\ LET f == dir[conv.path] IN
         IF f.io = "read_fails"
         THEN Raise("ReadError") /\ UNCHANGED <<ret, printed>>
         ELSE IF f.tracks > 1
         THEN /\ printed' = Append(printed, conv.path)
              /\ ret' = ReturnsNone
              /\ conv' = NoConv
              /\ pc' = "returned"
              /\ UNCHANGED err
         ELSE IF ~conv.bound
         THEN Raise("UnboundLocalError") /\ UNCHANGED <<ret, printed>>
         ELSE /\ ret' = RollTriple(RollOf(transpose(chordify(f), conv.num_semitones)),
                                   binarize)
              /\ conv' = NoConv
              /\ pc' = "returned"
              /\ UNCHANGED <<err, printed>>
    /\ UNCHANGED <<cfgVars, surname, candidates, filepath_array, idx, rows, results,
                   tempdirs, created, chordIn, intOut>>

\* rows numbered by enumerate(..., 1)
FileRows_from_one(r, name, L) ==
    [i \in 1..Len(r.data) |->
        [ctx |-> [j \in 1..L |-> r.data[i][j]],
         label |-> r.labels[i],
         duration |-> r.duration[i],
         file |-> name,
         position |-> i]]

\* the rows extract builds from one file's triple: enumerate(zip(data, labels, durations))
FileRows(r, name, L) ==
    [i \in 1..Len(r.data) |->
        [ctx |-> [j \in 1..L |-> r.data[i][j]],
         label |-> r.labels[i],
         duration |-> r.duration[i],
         file |-> name,
         position |-> i - 1]]

\* extract, lines 27-37: unpack the result and append its rows; unpacking
\* None and zipping with a None third element both raise TypeError
ExtractRows ==
    /\ pc = "returned"
    /\ caller = "extract"
    /\ IF ret.kind = "None" \/ ret.durationIsNone
       THEN Raise("TypeError") /\ UNCHANGED <<rows, idx>>
       ELSE /\ rows' = rows \o FileRows(ret, CurrentFile.stem, lookback)
            /\ idx' = idx + 1
            /\ pc' = "loop"
            /\ UNCHANGED <<err, conv>>
    /\ UNCHANGED <<cfgVars, surname, candidates, filepath_array, ret, results,
                   tempdirs, created, printed, chordIn, intOut>>

\* extract, lines 39-41: df[cols] on the frame of rows; a frame built from no
\* rows has no columns and the selection raises KeyError
ExtractFinish ==
    /\ pc = "loop"
    /\ caller = "extract"
    /\ idx > Len(filepath_array)
    /\ IF rows = <<>>
       THEN Raise("KeyError")
       ELSE pc' = "done" /\ UNCHANGED <<err, conv>>
    /\ UNCHANGED <<cfgVars, surname, candidates, filepath_array, idx, ret, rows,
                   results, tempdirs, created, printed, chordIn, intOut>>

\* the client keeps what the encoder returned and goes on
ApiReceive ==
    /\ pc = "returned"
    /\ caller = "api"
    /\ results' = Append(results, ret)
    /\ idx' = idx + 1
    /\ pc' = "loop"
    /\ UNCHANGED <<cfgVars, surname, candidates, filepath_array, err, conv, ret, rows,
                   tempdirs, created, printed, chordIn, intOut>>

ApiFinish ==
    /\ pc = "loop"
    /\ caller = "api"
    /\ idx > Len(filepath_array)
    /\ pc' = "done"
    /\ UNCHANGED <<cfgVars, surname, candidates, filepath_array, err, idx, conv, ret,
                   rows, results, tempdirs, created, printed, chordIn, intOut>>

(***************************************************************************)
(* The chord modes.                                                        *)
(***************************************************************************)
ChordFiles == {File(<<"a">>, TRUE, "major", t, 1, n, 1, "ok") :
                  t \in {0, 7}, n \in 0..MaxChords}

InitChord ==
    /\ output_type \in {"chordify_string", "chordify_int", "chordify_roman"}
    /\ lookback \in 1..MaxLookback
    /\ binarize = TRUE
    /\ \/ caller = "extract" /\ argsTranspose \in BOOLEAN /\ transposeArg = TRUE
       \/ caller = "api" /\ argsTranspose = TRUE /\ transposeArg \in BOOLEAN
    /\ dirExists = TRUE
    /\ dir \in SeqsUpTo(ChordFiles, MaxFiles)
    /\ InitCommon

NextChord ==
    \/ \E s \in BatchSurnames : StartBatch(s)
    \/ ConvertBegin
    \/ ChordInit
    \/ ChordStep
    \/ ChordReturn
    \/ ExtractRows
    \/ ExtractFinish
    \/ ApiReceive
    \/ ApiFinish

SpecChord == InitChord /\ [][NextChord]_vars

(***************************************************************************)
(* The piano-roll modes.                                                   *)
(***************************************************************************)
RollFiles == {File(<<"a">>, TRUE, "major", t, 1, MaxChords, tr, o) :
                 t \in {0, 7}, tr \in 1..2, o \in {"ok", "write_fails", "read_fails"}}

InitRoll ==
    /\ output_type \in {"pianoroll", "full_pianoroll"}
    /\ lookback = 1
    /\ binarize \in BOOLEAN
    /\ \/ caller = "extract" /\ argsTranspose \in BOOLEAN /\ transposeArg = TRUE
       \/ caller = "api" /\ argsTranspose = TRUE /\ transposeArg \in BOOLEAN
    /\ dirExists = TRUE
    /\ dir \in SeqsUpTo(RollFiles, MaxFiles)
    /\ InitCommon

NextRoll ==
    \/ \E s \in BatchSurnames : StartBatch(s)
    \/ ConvertBegin
    \/ MakeTemp
    \/ RollWrite
    \/ RollRead
    \/ RollFinish
    \/ FullPianoroll
    \/ ExtractRows
    \/ ApiReceive
    \/ ApiFinish

SpecRoll == InitRoll /\ [][NextRoll]_vars

(***************************************************************************)
(* chord_to_base_n called on a tuple of notes.                             *)
(***************************************************************************)
NotePitches == {58, 59, 60, 61, 62}

InitInt ==
    /\ output_type = "chordify_int"
    /\ lookback = 1
    /\ binarize = TRUE
    /\ argsTranspose = TRUE
    /\ caller = "api"
    /\ transposeArg = TRUE
    /\ dirExists = TRUE
    /\ dir = <<>>
    /\ InitCommon

CallChordToBaseN(notes) ==
    /\ chordIn' = notes
    /\ intOut' = [called |-> TRUE, value |-> chord_to_base_n(notes)]
    /\ UNCHANGED <<cfgVars, surname, candidates, filepath_array, pc, err, idx, conv,
                   ret, rows, results, tempdirs, created, printed>>

NextInt == \E notes \in SeqsUpTo(NotePitches, MaxNotes) \ {<<>>} : CallChordToBaseN(notes)

SpecInt == InitInt /\ [][NextInt]_vars

(***************************************************************************)
(* Properties of the selector (SpecSel).                                   *)
(***************************************************************************)
\* the paths the latest collect call had to consider, from the directory
MatchedPaths == IF surname.given
                THEN {i \in DOMAIN dir : IsPrefix(surname.text, dir[i].stem)}
                ELSE DOMAIN dir

MeetsCriteria(f) == f.mode = "major" /\ getTimeSignatures(f) = 1

\* C3: after a collect call that returns normally every selected file is
\* analysed as major with exactly one time signature, and the selection is
\* the candidate paths that meet both criteria, in candidate order.
C3_SelectionAdmitted ==
    pc = "collected" =>
        /\ \A k \in DOMAIN filepath_array : MeetsCriteria(dir[filepath_array[k]])
        /\ Range(filepath_array) = {i \in MatchedPaths : MeetsCriteria(dir[i])}
        /\ \A k, l \in DOMAIN filepath_array : k < l => filepath_array[k] < filepath_array[l]

\* a normal return that kept a file without a written time signature and
\* dropped a minor file and a file with two time signatures
C3_Witness ==
    /\ pc = "collected"
    /\ Len(filepath_array) >= 1
    /\ \E i \in Range(filepath_array) : dir[i].nts = 0
    /\ \E i \in MatchedPaths : dir[i].mode = "minor" \/ dir[i].nts = 2

AllMatchedRejected ==
    /\ MatchedPaths # {}
    /\ \A i \in MatchedPaths : dir[i].parses /\ ~MeetsCriteria(dir[i])

\* C4 as stated: with the root directory present, collect fails with "no
\* matching files" exactly when a non-empty name filter yields no candidate
\* path; a filter whose matches are all rejected gives an empty selection
\* and no error.
C4_NoMatchIffNonEmptyFilter ==
    (pc # "start" /\ dirExists) =>
        /\ (err = "NoMatch") <=>
               (surname.given /\ surname.text # <<>> /\ MatchedPaths = {})
        /\ (surname.given /\ AllMatchedRejected) =>
               (pc = "collected" /\ err = "none" /\ filepath_array = <<>>)

\* C4 as amended: with the root directory present, collect fails with "no
\* matching files" exactly when a name filter is given (any string, the
\* empty one included) and yields no candidate path; a filter whose matches
\* are all rejected gives an empty selection and no error.
C4_NoMatchIffFilterGiven ==
    (pc # "start" /\ dirExists) =>
        /\ (err = "NoMatch") <=> (surname.given /\ MatchedPaths = {})
        /\ (surname.given /\ AllMatchedRejected) =>
               (pc = "collected" /\ err = "none" /\ filepath_array = <<>>)

\* a filter that matched files, all of them rejected, and a normal return
C4_Witness ==
    /\ surname.given
    /\ surname.text # <<>>
    /\ AllMatchedRejected
    /\ pc = "collected"
    /\ filepath_array = <<>>

(***************************************************************************)
(* Properties of the chord modes (SpecChord).                              *)
(***************************************************************************)
Sentinel == IF output_type = "chordify_int" THEN Zero ELSE START

\* the window the claim assigns to the i-th event (i from 1) of a file whose
\* labels so far are labels
WindowOf(labels, i) ==
    [j \in 1..lookback |->
        IF i - lookback + j - 1 >= 1 THEN labels[i - lookback + j - 1] ELSE Sentinel]

\* C1: in the chord modes the window emitted for event i of a file has
\* exactly lookback entries, entry j being the label of event i-lookback+j of
\* the same file, or the sentinel when there is no such event; this holds of
\* every window from the moment it is emitted, in the returned data and in
\* the rows, whatever files were processed before.
C1_WindowContents ==
    /\ pc = "chords" =>
          \A i \in DOMAIN conv.data :
              Deref(conv.data[i], conv.moving_window) = WindowOf(conv.labels, i)
    /\ (IsChordMode(output_type) /\ ret.kind = "tuple") =>
          /\ Len(ret.data) = Len(ret.labels)
          /\ \A i \in DOMAIN ret.data : ret.data[i] = WindowOf(ret.labels, i)
    /\ \A r \in DOMAIN rows :
          /\ DOMAIN rows[r].ctx = 1..lookback
          /\ \A j \in 1..lookback :
                LET back == lookback - j + 1 IN
                rows[r].ctx[j] = IF rows[r].position - back >= 0
                                 THEN rows[r - back].label ELSE Sentinel

\* a second file's first row, all sentinels, right after a file of three or
\* more events whose last window is full of labels
C1_Witness ==
    /\ lookback >= 2
    /\ \E r \in DOMAIN rows :
          /\ r > 1
          /\ rows[r].position = 0
          /\ rows[r - 1].position >= 2
          /\ \A j \in 1..lookback : rows[r].ctx[j] = Sentinel
          /\ \A j \in 1..lookback : rows[r - 1].ctx[j] # Sentinel

\* the chord events the encoder is given for file f
EventsOf(f) == IF TransposeParam /\ NotCMajor(f)
               THEN transpose(chordify(f), IntervalToC(f)) ELSE chordify(f)

RowCore(row) == [label |-> row.label, duration |-> row.duration,
                 file |-> row.file, position |-> row.position]

RECURSIVE EventRows(_)
\* one row per chord event of every file of paths, file after file
EventRows(paths) ==
    IF paths = <<>> THEN <<>>
    ELSE LET f == dir[Head(paths)] IN
         [i \in 1..f.nchords |->
             [label |-> ChordLabel(output_type, EventsOf(f)[i]),
              duration |-> chordify(f)[i].dur,
              file |-> f.stem,
              position |-> i - 1]]
         \o EventRows(Tail(paths))

\* C2: in a chord mode the encoder returns one (window, label, duration)
\* entry per chord event of the file and the row loop of extract turns them
\* into one row per event, in event order, numbered from 0; a file without
\* chord events adds no row, and neither the encoder nor the row loop raises
\* (only collect, and the column selection on a frame of no rows at all, do).
C2_OneRowPerEvent ==
    /\ pc = "returned" =>
          /\ ret.kind = "tuple"
          /\ Len(ret.data) = CurrentFile.nchords
          /\ Len(ret.labels) = CurrentFile.nchords
          /\ Len(ret.duration) = CurrentFile.nchords
    /\ caller = "extract" =>
          [i \in DOMAIN rows |-> RowCore(rows[i])]
              = EventRows(SubSeq(filepath_array, 1, idx - 1))
    /\ pc = "raised" =>
          \/ err = "NoMatch"
          \/ err = "KeyError" /\ idx > Len(filepath_array) /\ rows = <<>>

\* extract finished on a file without chord events followed by one with three
C2_Witness ==
    /\ caller = "extract"
    /\ pc = "done"
    /\ Len(filepath_array) = 2
    /\ dir[filepath_array[1]].nchords = 0
    /\ dir[filepath_array[2]].nchords >= 3
    /\ Len(rows) = dir[filepath_array[2]].nchords

\* whether the run asked for transposition: the driver's --no-transpose flag,
\* or the transpose argument of a direct call
TransposeEnabled == IF caller = "extract" THEN argsTranspose ELSE transposeArg

\* C9: the score is transposed exactly when transposition is enabled and the
\* analysed key is not C major, every pitch then moving by the interval from
\* the tonic to C; with transposition disabled the encoder works on the
\* score as written.
C9_TransposedIffEnabled ==
    conv.active =>
        conv.chord_data =
            IF TransposeEnabled /\ NotCMajor(dir[conv.path])
            THEN transpose(chordify(dir[conv.path]), IntervalToC(dir[conv.path]))
            ELSE chordify(dir[conv.path])

\* the label of a chord that was normalised before labelling
NormalisedLabel(t, chord) ==
    CASE t = "chordify_string" -> pitchedCommonName(closedPosition(chord))
      [] t = "chordify_int"    -> IntLabel(chord_to_base_n(closedPosition(chord).pitches))
      [] OTHER                 -> romanNumeralFromChord(closedPosition(chord))

\* C10: in each chord mode every label is computed from the chord in closed
\* position at octave 4, and the emitted duration is the chord's own.
C10_LabelFromClosedPosition ==
    pc = "chords" =>
        \A i \in DOMAIN conv.labels :
            /\ conv.labels[i] = NormalisedLabel(output_type, conv.chord_data[i])
            /\ conv.duration[i] = conv.chord_data[i].dur

(***************************************************************************)
(* Properties of the piano-roll modes (SpecRoll).                          *)
(***************************************************************************)
\* C5: in the piano-roll modes a file with more than one track is skipped:
\* the encoder returns nothing for it, no error is raised and the batch goes
\* on to the next file.
C5_MultiTrackSoftSkip ==
    (IsRollMode(output_type) /\ ret.kind = "None") =>
        /\ pc # "raised" \/ err \in {"WriteError", "ReadError"}
        /\ rows = <<>>

\* C6: in the roll modes the encoder returns (inputs, target, None) for every
\* single-track file it can read, in full_pianoroll whether or not the score
\* was transposed.
C6_RollTripleAlways ==
    (IsRollMode(output_type) /\ idx \in DOMAIN filepath_array
        /\ CurrentFile.tracks = 1 /\ CurrentFile.io = "ok") =>
        /\ pc = "returned" => (ret.kind = "tuple" /\ ret.durationIsNone)
        /\ err # "UnboundLocalError"

\* C7: a temporary directory exists only while the block that made it runs:
\* once the conversion has returned or raised no temporary directory is left.
C7_TempDirRemoved ==
    /\ pc \in {"write", "read"} => tempdirs = {conv.temp_dir}
    /\ pc \notin {"write", "read"} => tempdirs = {}

\* a conversion that returned, then one that raised while writing the
\* intermediate file: two directories were made and none is left
C7_Witness ==
    /\ created = 2
    /\ pc = "raised"
    /\ err = "WriteError"
    /\ tempdirs = {}

(***************************************************************************)
(* Property of chord_to_base_n (SpecInt).                                  *)
(***************************************************************************)
Bit(n, k) == (n \div Pow2(k)) % 2 = 1

\* C8: the label chord_to_base_n gives a chord is a non-negative integer
\* whose bit k is set exactly when the chord has a note of MIDI number 60+k.
C8_LabelIsBitmask ==
    intOut.called =>
        /\ intOut.value.exp = 0
        /\ intOut.value.num >= 0
        /\ \A k \in 0..(2 * MaxNotes + 4) :
              Bit(intOut.value.num, k) <=> (MiddleC + k) \in Range(chordIn)

====
